---- MODULE Spec2Model ----
(***************************************************************************)
(* Slide Surgeon (index.tsx): the App component's session state, its       *)
(* handlers and the asynchronous generation and tweak flows, together with *)
(* the enabling conditions of the rendered controls (CommandBar, Canvas).  *)
(*                                                                         *)
(* A handler runs to its first await as one step; every resumption after   *)
(* an await (extractor result, generator settlement, timer, image load) is *)
(* one step, as in the browser's run-to-completion event loop.  State      *)
(* updates issued in one step are batched into one render (React 18        *)
(* createRoot).  Handlers read the state of the render they were created   *)
(* in; values a flow uses after an await are the ones captured at its      *)
(* start and are kept in the flow's record.                                *)
(***************************************************************************)
EXTENDS Integers, Sequences, FiniteSets, TLC

\* ---------------------------------------------------------------- bounds
MaxGenFlows == 2      \* generation flows with a promise or timer outstanding
MaxUuids == 2         \* values crypto.randomUUID hands out in one behaviour
MaxTweakFlows == 2    \* tweak flows awaiting a result at the same time
MaxParts == 2         \* parts in one generator response
MaxDirectCalls == 1   \* handler calls made without going through a control
MaxTargetWidth == 64  \* widths 1..MaxTargetWidth handed to the compositor
MaxSourceSide == 7    \* source images of 1..MaxSourceSide pixels a side

\* ------------------------------------------------------------ input sets
NoFile == "<null>"
Files == {"roadmap.png", "slide.png"}
StylePresets == {"Executive", "Workshop", "Investor"}
ImageData == {"imgA", "imgB"}
\* Parts of the responses to generation requests and to edit requests.
GenPartKinds == {"text", "other", "imgA"}
TweakPartKinds == {"text"} \cup ImageData
TweakTexts == {<<>>, <<" ">>, <<" ", "a">>}
NoError == "<null>"

GenIds == 1..MaxGenFlows
TweakIds == 1..MaxTweakFlows

\* ------------------------------------------------------- error messages
MsgNoImage == "Please upload an image first."
MsgOcrFailed == "Smart OCR failed to extract structured content from the slide. Please try a different image."
MsgTimeout == "Generation timed out. The request took too long, please try again."
MsgNotBoth == "Sorry, the model didn't return both a title and an image. Please try again."
MsgMissingPart == "The model response was missing either the text or image part."
MsgGenerateDefault == "An error occurred while generating variants. Please check the console."
MsgNoContext == "Could not get canvas context"
MsgLoadFailed == "Failed to load image for processing."
MsgTweakNotFound == "Could not find the variant to tweak."
MsgTweakFailed == "Sorry, the tweak could not be applied. Please try again."
MsgExportNotFound == "Could not find the specified variant to export."
MsgExportFailed == "Could not export the image. Please try again."
MsgNullDeref == "TypeError: Cannot read properties of null (reading 'error')"
MsgService == "ApiError: service unavailable"

\* The messages a rejected generator call can carry: a non-empty message or
\* an empty one (e.message is falsy).
RejectMessages == {MsgService, ""}

VARIABLES
  originalImage,   \* useState<File | null>: the file's name, or NoFile
  stylePreset,     \* useState<StylePreset>
  variants,        \* useState<Variant[]>
  isLoading,       \* useState<boolean>: generating flag
  isTweaking,      \* useState<boolean>: editing flag
  tweakRequest,    \* useState<string>: the instruction text, as characters
  error,           \* useState<string | null>
  compareOn,       \* useState<boolean>
  gen,             \* the invocations of handleGenerateVariants
  tweak,           \* the invocations of handleApplyTweak
  uuidCount,       \* values handed out by crypto.randomUUID so far
  download,        \* href of the download link clicked by the last step, or NoDisplay
  settled,         \* what the last step handed to a generation flow: the
                   \* extractor's answer or the response that won the race
  thrown,          \* message of the exception the last step logged in the catch
                   \* block of handleGenerateVariants (console.error), or NoError
  directCalls      \* handler calls made so far without going through a control

vars == <<originalImage, stylePreset, variants, isLoading, isTweaking,
          tweakRequest, error, compareOn, gen, tweak,
          uuidCount, download, settled, thrown, directCalls>>

appState == <<originalImage, stylePreset, variants, isLoading, isTweaking,
              tweakRequest, error, compareOn>>

\* ------------------------------------------------------ text as tokens
\* Strings that the code transforms are sequences of tokens, so that
\* String.prototype.replace, JSON.stringify, trim and the data-URL pattern
\* act on them as the code's library calls do.

RECURSIVE IndexOf(_, _, _)
\* Index of the first occurrence of token t in s at or after i, 0 if none.
IndexOf(s, t, i) ==
  IF i > Len(s) THEN 0
  ELSE IF s[i] = t THEN i
  ELSE IndexOf(s, t, i + 1)

RECURSIVE GetSubstitution(_, _)
\* The replacement text String.prototype.replace inserts for a string
\* replacement: "$$" stands for "$" and "$&" for the matched text.
GetSubstitution(matched, replacement) ==
  IF replacement = <<>> THEN <<>>
  ELSE IF Len(replacement) >= 2 /\ replacement[1] = "$" /\ replacement[2] = "$"
    THEN <<"$">> \o GetSubstitution(matched, SubSeq(replacement, 3, Len(replacement)))
  ELSE IF Len(replacement) >= 2 /\ replacement[1] = "$" /\ replacement[2] = "&"
    THEN <<matched>> \o GetSubstitution(matched, SubSeq(replacement, 3, Len(replacement)))
  ELSE <<replacement[1]>> \o GetSubstitution(matched, Tail(replacement))

\* s.replace(pattern, replacement) with a string pattern: first match only.
StringReplace(s, pattern, replacement) ==
  LET i == IndexOf(s, pattern, 1)
  IN  IF i = 0 THEN s
      ELSE SubSeq(s, 1, i - 1) \o GetSubstitution(pattern, replacement)
             \o SubSeq(s, i + 1, Len(s))

MASTER_RECONSTRUCT_PROMPT ==
  <<"Persona/Task/Rules", "{{stylePreset}}", "JSON Data to Visualize:",
    "{{jsonData}}", "Format">>

\* ------------------------------------------------------ structured JSON
\* A value of structuredJson: tag "unset" before assignment, "null" for the
\* JSON value null, "object" otherwise; error is the truthiness of its
\* .error property; body is its content.
JsonUnset == [tag |-> "unset", error |-> FALSE, body |-> <<>>]
JsonNull == [tag |-> "null", error |-> FALSE, body |-> <<>>]
JsonObject(b, e) == [tag |-> "object", error |-> e, body |-> b]

DEMO_DATA ==
  [name \in {"roadmap.png", "survey.png", "flowchart.png"} |->
     CASE name = "roadmap.png" -> JsonObject(<<"tasks">>, FALSE)
       [] name = "survey.png" -> JsonObject(<<"questions">>, FALSE)
       [] name = "flowchart.png" -> JsonObject(<<"nodes", "edges">>, FALSE)]

\* The object runOcrOnImage returns from its catch block.
OcrFallback == JsonObject(<<"extractedContent", "notes">>, TRUE)

\* What the extractor service can answer: a rejected call, a text that is
\* not JSON, or a JSON value.
OcrJsonValues ==
  {JsonObject(<<"list">>, FALSE), JsonObject(<<"price", "$", "$">>, FALSE),
   JsonObject(<<"list">>, TRUE), JsonNull}
OcrOutcomes ==
  {[kind |-> "rejected", value |-> JsonUnset],
   [kind |-> "unparseable", value |-> JsonUnset]}
  \cup {[kind |-> "json", value |-> v] : v \in OcrJsonValues}

\* runOcrOnImage: the parsed JSON value, or the fallback object when the
\* call or JSON.parse throws.
runOcrOnImage(outcome) ==
  IF outcome.kind = "json" THEN outcome.value ELSE OcrFallback

\* OcrThrows that does not look at the error marker.
OcrThrowsIgnoringMarker(sj) ==
  IF sj.tag = "null" THEN MsgNullDeref ELSE ""

\* The message of the exception lines 245-247 throw for the value sj that
\* runOcrOnImage returned, "" when they throw none: reading .error of null
\* is a TypeError, a truthy .error is the extraction failure.
OcrThrows(sj) ==
  IF sj.tag = "null" THEN MsgNullDeref
  ELSE IF sj.error THEN MsgOcrFailed
  ELSE ""

\* JSON.stringify(structuredJson, null, 2)
JSONstringify(j) ==
  IF j.tag = "null" THEN <<"null">>
  ELSE <<"{">> \o (IF j.error THEN <<"error">> ELSE <<>>) \o j.body \o <<"}">>

\* finalPrompt of handleGenerateVariants.
FinalPrompt(style, j) ==
  StringReplace(StringReplace(MASTER_RECONSTRUCT_PROMPT, "{{stylePreset}}", <<style>>),
                "{{jsonData}}", JSONstringify(j))

\* ----------------------------------------------------------- images
NoUrl == <<>>
\* `data:${mimeType};base64,${data}`
DataUrl(mimeType, data) == <<"data:", mimeType, ";base64,", data>>

\* sourceGraphicUrl.match(/^data:(.+);base64,(.+)$/) succeeds.
MatchesDataUrl(u) ==
  /\ Len(u) = 4
  /\ u[1] = "data:" /\ u[2] # "" /\ u[3] = ";base64," /\ u[4] # ""

DefaultBackground == "#FFFFFF"
DefaultTargetWidth == 1920

\* targetHeight rounded to the nearest integer.
targetHeightRounded(targetWidth) == (targetWidth * 9 + 8) \div 16

\* canvas.height: (targetWidth / 16) * 9, truncated by the canvas to an
\* integer number of pixels.
targetHeight(targetWidth) == (targetWidth * 9) \div 16

NoDisplay == [src |-> NoUrl, bg |-> "", width |-> 0, height |-> 0]
\* The image processFinalImage resolves with.
processFinalImage(imageDataUrl, backgroundColor, targetWidth) ==
  [src |-> imageDataUrl, bg |-> backgroundColor, width |-> targetWidth,
   height |-> targetHeight(targetWidth)]

\* ------------------------------------------------- Number arithmetic
\* The scaling of img.onload is computed on Numbers (IEEE 754 doubles). A
\* natural number of any size is a sequence of limbs, least significant
\* first, without leading zero limbs; a Number is neg, mag and exp with the
\* value (-1)^neg * mag * 2^exp, mag odd or zero.
LimbBase == 32768
LimbBits == 15
Precision == 53     \* bits of a double's significand
DivGuardBits == 75  \* fraction bits of a quotient before it is rounded

Limb(a, i) == IF i <= Len(a) THEN a[i] ELSE 0

RECURSIVE BigNorm(_)
BigNorm(a) ==
  IF a = <<>> THEN a
  ELSE IF a[Len(a)] = 0 THEN BigNorm(SubSeq(a, 1, Len(a) - 1))
  ELSE a

RECURSIVE BigFromInt(_)
BigFromInt(n) ==
  IF n = 0 THEN <<>> ELSE <<n % LimbBase>> \o BigFromInt(n \div LimbBase)

RECURSIVE BigMulCarry(_, _, _, _)
BigMulCarry(a, m, i, carry) ==
  IF i > Len(a) THEN BigFromInt(carry)
  ELSE LET t == a[i] * m + carry
       IN  <<t % LimbBase>> \o BigMulCarry(a, m, i + 1, t \div LimbBase)
\* a * m for 0 <= m < 2^16.
BigMulSmall(a, m) == BigNorm(BigMulCarry(a, m, 1, 0))

RECURSIVE BigAddCarry(_, _, _, _)
BigAddCarry(a, b, i, carry) ==
  IF i > Len(a) /\ i > Len(b) THEN BigFromInt(carry)
  ELSE LET t == Limb(a, i) + Limb(b, i) + carry
       IN  <<t % LimbBase>> \o BigAddCarry(a, b, i + 1, t \div LimbBase)
BigAdd(a, b) == BigNorm(BigAddCarry(a, b, 1, 0))

RECURSIVE BigSubBorrow(_, _, _, _)
BigSubBorrow(a, b, i, borrow) ==
  IF i > Len(a) THEN <<>>
  ELSE LET t == a[i] - Limb(b, i) - borrow
       IN  <<IF t < 0 THEN t + LimbBase ELSE t>>
             \o BigSubBorrow(a, b, i + 1, IF t < 0 THEN 1 ELSE 0)
\* a - b for a >= b.
BigSub(a, b) == BigNorm(BigSubBorrow(a, b, 1, 0))

RECURSIVE BigCmpAt(_, _, _)
BigCmpAt(a, b, i) ==
  IF i = 0 THEN 0
  ELSE IF a[i] < b[i] THEN -1
  ELSE IF a[i] > b[i] THEN 1
  ELSE BigCmpAt(a, b, i - 1)
\* -1, 0 or 1 as a is below, equal to or above b.
BigCmp(a, b) ==
  IF Len(a) < Len(b) THEN -1
  ELSE IF Len(a) > Len(b) THEN 1
  ELSE BigCmpAt(a, b, Len(a))

RECURSIVE Pow2(_)
Pow2(n) == IF n = 0 THEN 1 ELSE 2 * Pow2(n - 1)

\* a * 2^bits.
BigShl(a, bits) ==
  BigNorm([i \in 1..(bits \div LimbBits) |-> 0]
            \o BigMulSmall(a, Pow2(bits % LimbBits)))

RECURSIVE BigDivAt(_, _, _, _)
BigDivAt(a, d, i, rem) ==
  IF i = 0 THEN [q |-> <<>>, r |-> rem]
  ELSE LET t == rem * LimbBase + a[i]
           rest == BigDivAt(a, d, i - 1, t % d)
       IN  [q |-> Append(rest.q, t \div d), r |-> rest.r]
\* Quotient q and remainder r of a by d, for 0 < d < 2^16.
BigDivSmall(a, d) ==
  LET res == BigDivAt(a, d, Len(a), 0) IN [q |-> BigNorm(res.q), r |-> res.r]

\* floor(a / 2^bits).
BigShr(a, bits) ==
  IF bits \div LimbBits >= Len(a) THEN <<>>
  ELSE BigDivSmall(SubSeq(a, bits \div LimbBits + 1, Len(a)),
                   Pow2(bits % LimbBits)).q

RECURSIVE BitLenSmall(_)
BitLenSmall(n) == IF n = 0 THEN 0 ELSE 1 + BitLenSmall(n \div 2)
BigBitLen(a) ==
  IF a = <<>> THEN 0 ELSE LimbBits * (Len(a) - 1) + BitLenSmall(a[Len(a)])
BigIsOdd(a) == a # <<>> /\ a[1] % 2 = 1

NumZero == [neg |-> FALSE, mag |-> <<>>, exp |-> 0]

RECURSIVE TrailingZeros(_)
TrailingZeros(a) ==
  IF a = <<>> \/ BigIsOdd(a) THEN 0
  ELSE IF a[1] = 0 THEN LimbBits + TrailingZeros(SubSeq(a, 2, Len(a)))
  ELSE 1 + TrailingZeros(BigDivSmall(a, 2).q)
\* The same value with an odd mag.
NumNorm(x) ==
  IF x.mag = <<>> THEN NumZero
  ELSE LET z == TrailingZeros(x.mag)
       IN  [neg |-> x.neg, mag |-> BigShr(x.mag, z), exp |-> x.exp + z]

\* The double nearest to mag * 2^exp (plus a nonzero amount below one unit
\* of mag when sticky), ties to the even significand.
NumRound(neg, mag, exp, sticky) ==
  LET shift == BigBitLen(mag) - Precision
  IN  IF shift <= 0 THEN NumNorm([neg |-> neg, mag |-> mag, exp |-> exp])
      ELSE LET q == BigShr(mag, shift)
               rem == BigSub(mag, BigShl(q, shift))
               c == BigCmp(rem, BigShl(<<1>>, shift - 1))
               up == c = 1 \/ (c = 0 /\ (sticky \/ BigIsOdd(q)))
           IN  NumNorm([neg |-> neg,
                        mag |-> IF up THEN BigAdd(q, <<1>>) ELSE q,
                        exp |-> exp + shift])

NumFromInt(n) == NumNorm([neg |-> FALSE, mag |-> BigFromInt(n), exp |-> 0])
NumNeg(x) == IF x.mag = <<>> THEN x ELSE [x EXCEPT !.neg = ~x.neg]
NumSign(x) == IF x.mag = <<>> THEN 0 ELSE IF x.neg THEN -1 ELSE 1

\* x + y as a real number, not rounded and not normalised.
NumExactAdd(x, y) ==
  LET e == IF x.exp < y.exp THEN x.exp ELSE y.exp
      mx == BigShl(x.mag, x.exp - e)
      my == BigShl(y.mag, y.exp - e)
  IN  IF x.neg = y.neg THEN [neg |-> x.neg, mag |-> BigAdd(mx, my), exp |-> e]
      ELSE IF BigCmp(mx, my) >= 0
           THEN [neg |-> x.neg, mag |-> BigSub(mx, my), exp |-> e]
           ELSE [neg |-> y.neg, mag |-> BigSub(my, mx), exp |-> e]
\* -1, 0 or 1 as x is below, equal to or above y.
NumCmp(x, y) == NumSign(NumExactAdd(x, NumNeg(y)))
\* x * m as a real number, for 0 <= m < 2^16.
NumExactMulInt(x, m) == [x EXCEPT !.mag = BigMulSmall(x.mag, m)]

\* a / b on Numbers, for integers a >= 0 and 0 < b < 2^16.
NumDivInts(a, b) ==
  LET d == BigDivSmall(BigShl(BigFromInt(a), DivGuardBits), b)
  IN  IF a = 0 THEN NumZero ELSE NumRound(FALSE, d.q, -DivGuardBits, d.r # 0)
\* m * x on Numbers, for an integer 0 <= m < 2^16.
NumMulInt(m, x) == NumRound(x.neg, BigMulSmall(x.mag, m), x.exp, FALSE)
\* x - y on Numbers.
NumSub(x, y) ==
  LET d == NumExactAdd(x, NumNeg(y)) IN NumRound(d.neg, d.mag, d.exp, FALSE)
\* x / 2 on Numbers.
NumHalf(x) == IF x.mag = <<>> THEN x ELSE [x EXCEPT !.exp = @ - 1]

\* Math.min that returns the larger argument.
MathMinLarger(x, y) == IF NumCmp(y, x) > 0 THEN y ELSE x
\* Math.min on Numbers.
MathMin(x, y) == IF NumCmp(y, x) < 0 THEN y ELSE x

\* centerShift that leaves the image in the corner.
centerShiftNone(canvasSide, drawnSide) == NumZero
\* centerShift_x, centerShift_y: (canvas side - drawn side) / 2.
centerShift(canvasSide, drawnSide) ==
  NumHalf(NumSub(NumFromInt(canvasSide), drawnSide))

\* img.onload: the destination rectangle handed to ctx.drawImage for an
\* image of imgWidth by imgHeight on a canvas of canvasWidth by canvasHeight.
drawImage(canvasWidth, canvasHeight, imgWidth, imgHeight) ==
  LET hRatio == NumDivInts(canvasWidth, imgWidth)
      vRatio == NumDivInts(canvasHeight, imgHeight)
      ratio == MathMin(hRatio, vRatio)
      dWidth == NumMulInt(imgWidth, ratio)
      dHeight == NumMulInt(imgHeight, ratio)
  IN  [dx |-> centerShift(canvasWidth, dWidth),
       dy |-> centerShift(canvasHeight, dHeight),
       dWidth |-> dWidth, dHeight |-> dHeight]

\* ------------------------------------------------- generator responses
RECURSIVE SeqsUpTo(_, _)
SeqsUpTo(S, n) ==
  IF n = 0 THEN {<<>>}
  ELSE LET shorter == SeqsUpTo(S, n - 1)
       IN  shorter \cup {Append(s, x) : s \in {t \in shorter : Len(t) = n - 1}, x \in S}

\* A response: hasParts is false when candidates[0].content.parts is
\* undefined; a part is a text part, an image part (named by its data) or
\* a part that is neither.
Responses(kinds) ==
  {[hasParts |-> FALSE, parts |-> <<>>]}
  \cup {[hasParts |-> TRUE, parts |-> s] : s \in SeqsUpTo(kinds, MaxParts)}

HasTextPart(parts) == \E i \in 1..Len(parts) : parts[i] = "text"
HasImagePart(parts) == \E i \in 1..Len(parts) : parts[i] \in ImageData
\* parts.find(part => part.inlineData): the first image part.
FirstImagePart(parts) ==
  parts[CHOOSE i \in 1..Len(parts) :
          /\ parts[i] \in ImageData
          /\ \A j \in 1..(i - 1) : parts[j] \notin ImageData]

\* canvas.getContext('2d') is called only by a flow that got as far as
\* processFinalImage; it returns a context or null.
ContextOutcomes(reached) == IF reached THEN BOOLEAN ELSE {TRUE}
\* inlineData.mimeType is read only by a flow that found an image part.
MimeTypesRead(reached, mimeTypes) == IF reached THEN mimeTypes ELSE {"image/png"}

NoResponse == [hasParts |-> FALSE, parts |-> <<>>]
NoOcrOutcome == [kind |-> "none", value |-> JsonUnset]
\* No settlement; won says that resp is the response that won a race, late
\* that a generator call settled after its race had been decided, edited
\* the truthLockStatus the target of an edit had when the edit was applied
\* ("absent" when the list held no Variant with the id), lateTimer that a
\* timer fired after its race had been decided, files whether the upload
\* event handled carried a file ("one") or not ("empty").
NoSettlement ==
  [ocr |-> NoOcrOutcome, won |-> FALSE, late |-> FALSE, lateTimer |-> FALSE,
   resp |-> NoResponse, edited |-> "none", files |-> "none"]

\* ResponseCheck with the part count compared with 1 instead of 2.
ResponseCheckCountOffByOne(resp) ==
  IF ~resp.hasParts \/ Len(resp.parts) < 1 THEN MsgNotBoth
  ELSE IF ~HasTextPart(resp.parts) \/ ~HasImagePart(resp.parts) THEN MsgMissingPart
  ELSE ""

\* ResponseCheck that requires the image part only.
ResponseCheckImageOnly(resp) ==
  IF ~resp.hasParts \/ Len(resp.parts) < 2 THEN MsgNotBoth
  ELSE IF ~HasImagePart(resp.parts) THEN MsgMissingPart
  ELSE ""

\* The message thrown by the checks on the response of the generation
\* flow (lines 272-282), "" when it passes them.
ResponseCheck(resp) ==
  IF ~resp.hasParts \/ Len(resp.parts) < 2 THEN MsgNotBoth
  ELSE IF ~HasTextPart(resp.parts) \/ ~HasImagePart(resp.parts) THEN MsgMissingPart
  ELSE ""

\* ------------------------------------------------------------- variants
Variant(id, sourceGraphicUrl, displayImageUrl, truthLockStatus) ==
  [id |-> id, sourceGraphicUrl |-> sourceGraphicUrl,
   displayImageUrl |-> displayImageUrl, truthLockStatus |-> truthLockStatus]

\* variants.find(v => v.id === variantId) finds a Variant.
FindVariant(vs, variantId) == \E i \in 1..Len(vs) : vs[i].id = variantId
FoundVariant(vs, variantId) ==
  vs[CHOOSE i \in 1..Len(vs) :
       vs[i].id = variantId /\ \A j \in 1..(i - 1) : vs[j].id # variantId]

\* inlineData.mimeType of the image part of a generation response (an empty
\* one makes a data URL that the pattern of handleApplyTweak rejects) and of
\* an edit response.
GeneratedMimeTypes == {"image/png", ""}
TweakMimeTypes == {"image/png"}

\* --------------------------------------------------------- flow records
\* One invocation of handleGenerateVariants: pc is the await it is
\* suspended at ("ocr": runOcrOnImage, "race": Promise.race, "compose":
\* processFinalImage); image and style are the originalImage and
\* stylePreset of the render the handler closed over; genPending and
\* timerPending say that generationPromise has not settled and that the
\* setTimeout callback has not run.  When the handler has returned its
\* locals are gone and pc is "idle", but the loser of its race is still
\* outstanding; a record with nothing outstanding is free for the next
\* invocation.
GenIdle ==
  [pc |-> "idle", image |-> NoFile, style |-> "", structuredJson |-> JsonUnset,
   ocrCalls |-> 0, genCalls |-> 0, prompt |-> <<>>, genPending |-> FALSE,
   timerPending |-> FALSE, graphic |-> NoUrl]

GenDone(g) ==
  [GenIdle EXCEPT !.genPending = g.genPending, !.timerPending = g.timerPending]

InFlight(g) == g.pc \in {"ocr", "race", "compose"}
FreeRecord(g) == ~InFlight(g) /\ ~g.genPending /\ ~g.timerPending

\* One invocation of handleApplyTweak that passed the variant lookup: pc is
\* "gen" (awaiting generateContent) or "compose" (awaiting
\* processFinalImage); a handler that has returned leaves nothing behind.
TweakIdle == [pc |-> "idle", variantId |-> 0, graphic |-> NoUrl]

Init ==
  /\ originalImage = NoFile
  /\ stylePreset = "Workshop"
  /\ variants = <<>>
  /\ isLoading = FALSE
  /\ isTweaking = FALSE
  /\ tweakRequest = <<>>
  /\ error = NoError
  /\ compareOn = FALSE
  /\ gen = [f \in GenIds |-> GenIdle]
  /\ tweak = [t \in TweakIds |-> TweakIdle]
  /\ uuidCount = 0
  /\ download = NoDisplay
  /\ thrown = NoError
  /\ settled = NoSettlement
  /\ directCalls = 0

\* ------------------------------------------------------ simple handlers
\* handleImageUpload that stores event.target.files[0] whatever it is.
handleImageUploadUnchecked(file) ==
  /\ error' = NoError
  /\ variants' = <<>>
  /\ compareOn' = FALSE
  /\ originalImage' = file
  /\ UNCHANGED <<stylePreset, isLoading, isTweaking, tweakRequest, gen,
                 tweak, uuidCount>>
  /\ download' = NoDisplay
  /\ settled' = [NoSettlement EXCEPT
                  !.files = IF file # NoFile THEN "one" ELSE "empty"]
  /\ thrown' = NoError

\* handleImageUpload; file is NoFile when the event carries no file.
handleImageUpload(file) ==
  /\ error' = NoError
  /\ variants' = <<>>
  /\ compareOn' = FALSE
  /\ originalImage' = IF file # NoFile THEN file ELSE originalImage
  /\ UNCHANGED <<stylePreset, isLoading, isTweaking, tweakRequest, gen,
                 tweak, uuidCount>>
  /\ download' = NoDisplay
  /\ settled' = [NoSettlement EXCEPT
                  !.files = IF file # NoFile THEN "one" ELSE "empty"]
  /\ thrown' = NoError

handleStylePresetChange(preset) ==
  /\ stylePreset' = preset
  /\ UNCHANGED <<originalImage, variants, isLoading, isTweaking, tweakRequest,
                 error, compareOn, gen, tweak, uuidCount>>
  /\ download' = NoDisplay
  /\ settled' = NoSettlement
  /\ thrown' = NoError

onCompareToggle ==
  /\ compareOn' = ~compareOn
  /\ UNCHANGED <<originalImage, stylePreset, variants, isLoading, isTweaking,
                 tweakRequest, error, gen, tweak,
                 uuidCount>>
  /\ download' = NoDisplay
  /\ settled' = NoSettlement
  /\ thrown' = NoError

\* onTweakChange = setTweakRequest
onTweakChange(value) ==
  /\ tweakRequest' = value
  /\ UNCHANGED <<originalImage, stylePreset, variants, isLoading, isTweaking,
                 error, compareOn, gen, tweak, uuidCount>>
  /\ download' = NoDisplay
  /\ settled' = NoSettlement
  /\ thrown' = NoError

\* ------------------------------------------------------ generation flow
\* GenerateCatch without the default string: setError(e.message).
GenerateCatchNoDefault(f, g, msg) ==
  /\ error' = msg
  /\ isLoading' = FALSE
  /\ thrown' = msg
  /\ gen' = [gen EXCEPT ![f] = GenDone(g)]

\* The catch and finally blocks of handleGenerateVariants, run by flow f
\* for an exception with message msg; g is the flow's record at the throw.
GenerateCatch(f, g, msg) ==
  /\ error' = IF msg # "" THEN msg ELSE MsgGenerateDefault
  /\ isLoading' = FALSE
  /\ thrown' = msg
  /\ gen' = [gen EXCEPT ![f] = GenDone(g)]

\* Lines 250-270: build the prompt, issue the generator call, start the
\* timer and suspend at the race.
StartRace(g, sj) ==
  [g EXCEPT !.pc = "race", !.structuredJson = sj,
            !.prompt = FinalPrompt(g.style, sj), !.genCalls = g.genCalls + 1,
            !.genPending = TRUE, !.timerPending = TRUE]

\* isDemoFile that compares the File object, not its name, with the keys.
isDemoFileNever(name) == FALSE

\* Object.keys(DEMO_DATA).includes(originalImage.name)
isDemoFile(name) == name \in DOMAIN DEMO_DATA

\* A generate request that leaves the variants as they are.
VariantsKeptOnGenerate(currentVariants) == currentVariants

\* setVariants([]) of line 233.
VariantsOnGenerate(currentVariants) == <<>>

\* GenerateWithoutImage with setIsLoading(true) and setVariants([]) issued
\* before the check of originalImage.
GenerateWithoutImageLoading ==
  /\ error' = MsgNoImage
  /\ isLoading' = TRUE
  /\ variants' = <<>>
  /\ UNCHANGED compareOn

\* Lines 225-228: no source image, setError and return.
GenerateWithoutImage ==
  /\ error' = MsgNoImage
  /\ UNCHANGED <<variants, isLoading, compareOn>>

\* A generate request that leaves the error as it is.
ErrorKeptOnGenerate(currentError) == currentError

\* setError(null) of line 232.
ErrorOnGenerate(currentError) == NoError

\* handleGenerateVariants up to its first await.
handleGenerateVariants ==
  IF originalImage = NoFile
  THEN /\ GenerateWithoutImage
       /\ UNCHANGED <<originalImage, stylePreset,
                      isTweaking, tweakRequest, gen,
                      tweak, uuidCount>>
       /\ download' = NoDisplay
       /\ settled' = NoSettlement
       /\ thrown' = NoError
  ELSE /\ \E f \in GenIds : FreeRecord(gen[f])
       /\ uuidCount + Cardinality({f \in GenIds : InFlight(gen[f])}) < MaxUuids
       /\ isLoading' = TRUE
       /\ compareOn' = FALSE
       /\ error' = ErrorOnGenerate(error)
       /\ variants' = VariantsOnGenerate(variants)
       /\ LET f == CHOOSE f \in GenIds :
                     /\ FreeRecord(gen[f])
                     /\ \A e \in GenIds : FreeRecord(gen[e]) => f <= e
              g == [GenIdle EXCEPT !.image = originalImage, !.style = stylePreset]
          IN  gen' = [gen EXCEPT ![f] =
                IF isDemoFile(originalImage)
                THEN StartRace(g, DEMO_DATA[originalImage])
                ELSE [g EXCEPT !.pc = "ocr", !.ocrCalls = 1]]
       /\ UNCHANGED <<originalImage, stylePreset, isTweaking, tweakRequest,
                      tweak, uuidCount>>
       /\ download' = NoDisplay
       /\ settled' = NoSettlement
       /\ thrown' = NoError

\* RaceSettled for a flow that awaits generationPromise once more after the
\* race.
RaceSettledNever(g) == FALSE

\* RaceSettled for a flow whose timer also guards the compositor.
RaceSettledAtReturn(g) == g.pc \notin {"race", "compose"}

\* Promise.race of the flow with record g has settled already (or was never
\* started), so a callback of one of its two promises resumes nothing.
RaceSettled(g) == g.pc # "race"

\* FinalVariant that leaves the status at the initial 'verifying'.
FinalVariantVerifying(id, sourceGraphicUrl, displayImageUrl) ==
  Variant(id, sourceGraphicUrl, displayImageUrl, "verifying")

\* finalVariant of lines 291-296.
FinalVariant(id, sourceGraphicUrl, displayImageUrl) ==
  Variant(id, sourceGraphicUrl, displayImageUrl, "verified")

\* runOcrOnImage settles for flow f (lines 244-248, then 250-270).
OcrReturn(f, outcome) ==
  /\ gen[f].pc = "ocr"
  /\ settled' = [NoSettlement EXCEPT !.ocr = outcome]
  /\ LET sj == runOcrOnImage(outcome)
         g == [gen[f] EXCEPT !.structuredJson = sj]
     IN  IF OcrThrows(sj) # ""
         THEN GenerateCatch(f, g, OcrThrows(sj))
         ELSE /\ gen' = [gen EXCEPT ![f] = StartRace(gen[f], sj)]
              /\ UNCHANGED <<error, isLoading>>
              /\ thrown' = NoError
  /\ UNCHANGED <<originalImage, stylePreset, variants, isTweaking,
                 tweakRequest, compareOn, tweak,
                 uuidCount>>
  /\ download' = NoDisplay
  /\ UNCHANGED directCalls

\* generationPromise resolves with resp (lines 272-289); gotContext says
\* whether canvas.getContext('2d') returns a context.  Nothing reads the
\* response of a race that is already decided: NoResponse stands for it.
GenResolve(f, resp, mimeType, gotContext) ==
  /\ gen[f].genPending
  /\ RaceSettled(gen[f]) => resp = NoResponse
  /\ mimeType \in MimeTypesRead(~RaceSettled(gen[f]) /\ ResponseCheck(resp) = "",
                                 GeneratedMimeTypes)
  /\ gotContext \in ContextOutcomes(~RaceSettled(gen[f]) /\ ResponseCheck(resp) = "")
  /\ settled' = IF ~RaceSettled(gen[f])
                THEN [NoSettlement EXCEPT !.won = TRUE, !.resp = resp]
                ELSE [NoSettlement EXCEPT !.late = TRUE]
  /\ LET g == [gen[f] EXCEPT !.genPending = FALSE]
     IN  IF RaceSettled(g)
         THEN /\ gen' = [gen EXCEPT ![f] = g]
              /\ UNCHANGED <<error, isLoading>>
              /\ thrown' = NoError
         ELSE IF ResponseCheck(resp) # ""
         THEN GenerateCatch(f, g, ResponseCheck(resp))
         ELSE IF ~gotContext
         THEN GenerateCatch(f, g, MsgNoContext)
         ELSE /\ gen' = [gen EXCEPT ![f] =
                   [g EXCEPT !.pc = "compose",
                             !.graphic = DataUrl(mimeType, FirstImagePart(resp.parts))]]
              /\ UNCHANGED <<error, isLoading>>
              /\ thrown' = NoError
  /\ UNCHANGED <<originalImage, stylePreset, variants, isTweaking,
                 tweakRequest, compareOn, tweak,
                 uuidCount>>
  /\ download' = NoDisplay
  /\ UNCHANGED directCalls

\* generationPromise rejects with an error whose message is msg.
GenReject(f, msg) ==
  /\ gen[f].genPending
  /\ LET g == [gen[f] EXCEPT !.genPending = FALSE]
     IN  IF RaceSettled(g)
         THEN /\ gen' = [gen EXCEPT ![f] = g]
              /\ UNCHANGED <<error, isLoading>>
              /\ thrown' = NoError
         ELSE GenerateCatch(f, g, msg)
  /\ UNCHANGED <<originalImage, stylePreset, variants, isTweaking,
                 tweakRequest, compareOn, tweak,
                 uuidCount>>
  /\ download' = NoDisplay
  /\ UNCHANGED directCalls
  /\ settled' = [NoSettlement EXCEPT !.late = RaceSettled(gen[f])]

\* The setTimeout callback of flow f runs: timeoutPromise rejects.
TimerFire(f) ==
  /\ gen[f].timerPending
  /\ LET g == [gen[f] EXCEPT !.timerPending = FALSE]
     IN  IF RaceSettled(g)
         THEN /\ gen' = [gen EXCEPT ![f] = g]
              /\ UNCHANGED <<error, isLoading>>
              /\ thrown' = NoError
         ELSE GenerateCatch(f, g, MsgTimeout)
  /\ UNCHANGED <<originalImage, stylePreset, variants, isTweaking,
                 tweakRequest, compareOn, tweak,
                 uuidCount>>
  /\ download' = NoDisplay
  /\ UNCHANGED directCalls
  /\ settled' = [NoSettlement EXCEPT !.lateTimer = RaceSettled(gen[f])]

\* img.onload of the flow's processFinalImage call (lines 289-298, 304).
GenImageLoaded(f) ==
  /\ gen[f].pc = "compose"
  /\ LET sourceGraphicUrl == gen[f].graphic
         displayImageUrl ==
           processFinalImage(sourceGraphicUrl, DefaultBackground, DefaultTargetWidth)
         finalVariant ==
           FinalVariant(uuidCount + 1, sourceGraphicUrl, displayImageUrl)
     IN  variants' = <<finalVariant>>
  /\ uuidCount' = uuidCount + 1
  /\ isLoading' = FALSE
  /\ gen' = [gen EXCEPT ![f] = GenDone(gen[f])]
  /\ UNCHANGED <<originalImage, stylePreset, isTweaking, tweakRequest, error,
                 compareOn, tweak>>
  /\ download' = NoDisplay
  /\ UNCHANGED directCalls
  /\ settled' = NoSettlement
  /\ thrown' = NoError

\* img.onerror of the flow's processFinalImage call.
GenImageError(f) ==
  /\ gen[f].pc = "compose"
  /\ GenerateCatch(f, gen[f], MsgLoadFailed)
  /\ UNCHANGED <<originalImage, stylePreset, variants, isTweaking,
                 tweakRequest, compareOn, tweak,
                 uuidCount>>
  /\ download' = NoDisplay
  /\ UNCHANGED directCalls
  /\ settled' = NoSettlement

\* ------------------------------------------------------------ tweak flow
\* TweakCatch without the finally block.
TweakCatchKeepingFlag(t, r) ==
  /\ error' = MsgTweakFailed
  /\ UNCHANGED isTweaking
  /\ tweak' = [tweak EXCEPT ![t] = TweakIdle]

\* TweakCatch that logs the exception and sets no error.
TweakCatchSilent(t, r) ==
  /\ UNCHANGED error
  /\ isTweaking' = FALSE
  /\ tweak' = [tweak EXCEPT ![t] = TweakIdle]

\* The catch and finally blocks of handleApplyTweak, run by flow t.
TweakCatch(t, r) ==
  /\ error' = MsgTweakFailed
  /\ isTweaking' = FALSE
  /\ tweak' = [tweak EXCEPT ![t] = TweakIdle]

\* TweakNotFound without the setIsTweaking(false) of line 316.
TweakNotFoundKeepingFlag ==
  /\ error' = MsgTweakNotFound
  /\ isTweaking' = TRUE

\* Lines 309-317 when the lookup finds nothing: setIsTweaking(true),
\* setError(null), then setError(message), setIsTweaking(false), return.
TweakNotFound ==
  /\ error' = MsgTweakNotFound
  /\ isTweaking' = FALSE

\* handleApplyTweak up to its first await.
handleApplyTweak(variantId, tweakText) ==
  IF ~FindVariant(variants, variantId)
  THEN /\ TweakNotFound
       /\ UNCHANGED <<originalImage, stylePreset, variants, isLoading,
                      tweakRequest, compareOn, gen, tweak,
                      uuidCount>>
       /\ download' = NoDisplay
       /\ settled' = NoSettlement
       /\ thrown' = NoError
  ELSE /\ \E t \in TweakIds : tweak[t].pc = "idle"
       /\ LET t == CHOOSE t \in TweakIds :
                     /\ tweak[t].pc = "idle"
                     /\ \A e \in TweakIds : tweak[e].pc = "idle" => t <= e
              variantToTweak == FoundVariant(variants, variantId)
              r == [TweakIdle EXCEPT !.variantId = variantId]
          IN  IF ~MatchesDataUrl(variantToTweak.sourceGraphicUrl)
              THEN TweakCatch(t, r)
              ELSE /\ isTweaking' = TRUE
                   /\ error' = NoError
                   /\ tweak' = [tweak EXCEPT ![t] = [r EXCEPT !.pc = "gen"]]
       /\ UNCHANGED <<originalImage, stylePreset, variants, isLoading,
                      tweakRequest, compareOn, gen, uuidCount>>
       /\ download' = NoDisplay
       /\ settled' = NoSettlement
       /\ thrown' = NoError

\* generateContent of tweak flow t resolves with resp (lines 356-361, 376).
TweakResolve(t, resp, mimeType, gotContext) ==
  /\ tweak[t].pc = "gen"
  /\ gotContext \in ContextOutcomes(resp.hasParts /\ HasImagePart(resp.parts))
  /\ IF resp.hasParts /\ HasImagePart(resp.parts) /\ gotContext
     THEN /\ tweak' = [tweak EXCEPT ![t] =
               [@ EXCEPT !.pc = "compose",
                         !.graphic = DataUrl(mimeType, FirstImagePart(resp.parts))]]
          /\ UNCHANGED <<error, isTweaking>>
     ELSE TweakCatch(t, tweak[t])
  /\ UNCHANGED <<originalImage, stylePreset, variants, isLoading,
                 tweakRequest, compareOn, gen,
                 uuidCount>>
  /\ download' = NoDisplay
  /\ UNCHANGED directCalls
  /\ settled' = NoSettlement
  /\ thrown' = NoError

\* generateContent of tweak flow t rejects.
TweakReject(t) ==
  /\ tweak[t].pc = "gen"
  /\ TweakCatch(t, tweak[t])
  /\ UNCHANGED <<originalImage, stylePreset, variants, isLoading,
                 tweakRequest, compareOn, gen,
                 uuidCount>>
  /\ download' = NoDisplay
  /\ UNCHANGED directCalls
  /\ settled' = NoSettlement
  /\ thrown' = NoError

\* ApplyTweakTo that adds the edited Variant to the list.
ApplyTweakToAppending(currentVariants, variantId, newSourceGraphicUrl, newDisplayImageUrl) ==
  currentVariants \o
    SelectSeq([i \in 1..Len(currentVariants) |->
                 [currentVariants[i] EXCEPT !.sourceGraphicUrl = newSourceGraphicUrl,
                                            !.displayImageUrl = newDisplayImageUrl,
                                            !.truthLockStatus = "modified"]],
              LAMBDA v : v.id = variantId)

\* ApplyTweakTo that replaces the images and leaves the status.
ApplyTweakToKeepingStatus(currentVariants, variantId, newSourceGraphicUrl, newDisplayImageUrl) ==
  [i \in 1..Len(currentVariants) |->
     IF currentVariants[i].id = variantId
     THEN [currentVariants[i] EXCEPT !.sourceGraphicUrl = newSourceGraphicUrl,
                                     !.displayImageUrl = newDisplayImageUrl]
     ELSE currentVariants[i]]

\* ApplyTweakTo that replaces the raw image and leaves the display image.
ApplyTweakToKeepingDisplay(currentVariants, variantId, newSourceGraphicUrl, newDisplayImageUrl) ==
  [i \in 1..Len(currentVariants) |->
     IF currentVariants[i].id = variantId
     THEN [currentVariants[i] EXCEPT !.sourceGraphicUrl = newSourceGraphicUrl,
                                     !.truthLockStatus = "modified"]
     ELSE currentVariants[i]]

\* ApplyTweakTo that edits every Variant, whatever its id.
ApplyTweakToEvery(currentVariants, variantId, newSourceGraphicUrl, newDisplayImageUrl) ==
  [i \in 1..Len(currentVariants) |->
     [currentVariants[i] EXCEPT !.sourceGraphicUrl = newSourceGraphicUrl,
                                !.displayImageUrl = newDisplayImageUrl,
                                !.truthLockStatus = "modified"]]

\* currentVariants.map(...) of lines 363-374.
ApplyTweakTo(currentVariants, variantId, newSourceGraphicUrl, newDisplayImageUrl) ==
  [i \in 1..Len(currentVariants) |->
     IF currentVariants[i].id = variantId
     THEN [currentVariants[i] EXCEPT !.sourceGraphicUrl = newSourceGraphicUrl,
                                     !.displayImageUrl = newDisplayImageUrl,
                                     !.truthLockStatus = "modified"]
     ELSE currentVariants[i]]

\* img.onload of the tweak flow's processFinalImage call.
TweakImageLoaded(t) ==
  /\ tweak[t].pc = "compose"
  /\ LET newSourceGraphicUrl == tweak[t].graphic
         newDisplayImageUrl ==
           processFinalImage(newSourceGraphicUrl, DefaultBackground, DefaultTargetWidth)
     IN  variants' = ApplyTweakTo(variants, tweak[t].variantId,
                                  newSourceGraphicUrl, newDisplayImageUrl)
  /\ isTweaking' = FALSE
  /\ tweak' = [tweak EXCEPT ![t] = TweakIdle]
  /\ UNCHANGED <<originalImage, stylePreset, isLoading, tweakRequest, error,
                 compareOn, gen, uuidCount>>
  /\ download' = NoDisplay
  /\ UNCHANGED directCalls
  /\ settled' = [NoSettlement EXCEPT !.edited =
         IF FindVariant(variants, tweak[t].variantId)
         THEN FoundVariant(variants, tweak[t].variantId).truthLockStatus
         ELSE "absent"]
  /\ thrown' = NoError

\* img.onerror of the tweak flow's processFinalImage call.
TweakImageError(t) ==
  /\ tweak[t].pc = "compose"
  /\ TweakCatch(t, tweak[t])
  /\ UNCHANGED <<originalImage, stylePreset, variants, isLoading,
                 tweakRequest, compareOn, gen,
                 uuidCount>>
  /\ download' = NoDisplay
  /\ UNCHANGED directCalls
  /\ settled' = NoSettlement
  /\ thrown' = NoError

\* ------------------------------------------------------- improve, export
RECURSIVE TrimStart(_)
TrimStart(s) == IF s # <<>> /\ Head(s) = " " THEN TrimStart(Tail(s)) ELSE s
RECURSIVE TrimEnd(_)
TrimEnd(s) ==
  IF s # <<>> /\ s[Len(s)] = " " THEN TrimEnd(SubSeq(s, 1, Len(s) - 1)) ELSE s
\* String.prototype.trim
Trim(s) == TrimEnd(TrimStart(s))

\* handleImproveSlide that tests tweakRequest without trimming it.
handleImproveSlideUntrimmed ==
  IF Len(variants) > 0 /\ tweakRequest # <<>>
  THEN handleApplyTweak(variants[1].id, tweakRequest)
  ELSE handleGenerateVariants

handleImproveSlide ==
  IF Len(variants) > 0 /\ Trim(tweakRequest) # <<>>
  THEN handleApplyTweak(variants[1].id, tweakRequest)
  ELSE handleGenerateVariants

\* onExportPng; clicked says whether the download link could be created
\* and clicked without an exception.  A displayImageUrl that is not set is
\* recomputed from sourceGraphicUrl first.
onExportPng(variantId, clicked) ==
  /\ IF ~FindVariant(variants, variantId)
     THEN error' = MsgExportNotFound /\ download' = NoDisplay
     ELSE LET variantToExport == FoundVariant(variants, variantId)
              exportUrl ==
                IF variantToExport.displayImageUrl # NoDisplay
                THEN variantToExport.displayImageUrl
                ELSE processFinalImage(variantToExport.sourceGraphicUrl,
                                       DefaultBackground, DefaultTargetWidth)
          IN  IF clicked
              THEN download' = exportUrl /\ UNCHANGED error
              ELSE error' = MsgExportFailed /\ download' = NoDisplay
  /\ thrown' = NoError
  /\ settled' = NoSettlement
  /\ UNCHANGED <<originalImage, stylePreset, variants, isLoading, isTweaking,
                 tweakRequest, compareOn, gen, tweak,
                 uuidCount>>

\* ExportProp without the check of variants.length.
ExportPropUnguarded(clicked) ==
  onExportPng(IF Len(variants) > 0 THEN variants[1].id ELSE 0, clicked)

\* The onExportPng prop App passes to Canvas (lines 409-413).
ExportProp(clicked) ==
  IF Len(variants) > 0
  THEN onExportPng(variants[1].id, clicked)
  ELSE /\ download' = NoDisplay
       /\ thrown' = NoError
       /\ settled' = NoSettlement
       /\ UNCHANGED <<originalImage, stylePreset, variants, isLoading,
                      isTweaking, tweakRequest, error, compareOn, gen,
                      tweak, uuidCount>>

\* ------------------------------------------------- rendered controls
\* isActionDisabled with the prop isLoading={isLoading}.
isActionDisabledLoadingOnly == originalImage = NoFile \/ isLoading

\* CommandBar: isActionDisabled, with isLoading = {isLoading || isTweaking}.
isActionDisabled == originalImage = NoFile \/ (isLoading \/ isTweaking)
\* Canvas props.
canvasIsLoading == isLoading \/ isTweaking
variantExists == Len(variants) > 0
hasContent == originalImage # NoFile \/ variantExists
canvasActionDisabled == ~variantExists \/ canvasIsLoading

\* The upload label is rendered and a file is chosen through it.
ChooseFile(file) ==
  /\ ~hasContent /\ ~canvasIsLoading
  /\ handleImageUpload(file)
  /\ UNCHANGED directCalls

\* dropIgnored that looks at nothing.
dropIgnoredNever == FALSE

\* Canvas.handleDrop: if (isLoading || originalImage) return;
dropIgnored == canvasIsLoading \/ originalImage # NoFile

\* Canvas.handleDrop with a file.
DropFile(file) ==
  /\ ~dropIgnored
  /\ handleImageUpload(file)
  /\ UNCHANGED directCalls

ClickStyle(preset) ==
  ~isActionDisabled /\ handleStylePresetChange(preset) /\ UNCHANGED directCalls
TypeInstruction(value) ==
  ~isActionDisabled /\ onTweakChange(value) /\ UNCHANGED directCalls
ClickImprove == ~isActionDisabled /\ handleImproveSlide /\ UNCHANGED directCalls
ClickCompare ==
  /\ originalImage # NoFile /\ ~canvasActionDisabled
  /\ onCompareToggle
  /\ UNCHANGED directCalls
ClickExport(clicked) ==
  /\ originalImage # NoFile /\ ~canvasActionDisabled
  /\ ExportProp(clicked)
  /\ UNCHANGED directCalls

\* The asynchronous completions of the flows in flight.
GenSettles ==
  \E f \in GenIds :
    \/ \E outcome \in OcrOutcomes : OcrReturn(f, outcome)
    \/ \E resp \in Responses(GenPartKinds), m \in GeneratedMimeTypes, c \in BOOLEAN :
         GenResolve(f, resp, m, c)
    \/ \E msg \in RejectMessages : GenReject(f, msg)
    \/ TimerFire(f)
    \/ GenImageLoaded(f)
    \/ GenImageError(f)

TweakSettles ==
  \E t \in TweakIds :
    \/ \E resp \in Responses(TweakPartKinds), m \in TweakMimeTypes, c \in BOOLEAN :
         TweakResolve(t, resp, m, c)
    \/ TweakReject(t)
    \/ TweakImageLoaded(t)
    \/ TweakImageError(t)

\* The application as rendered: handlers run when their control is enabled.
Next ==
  \/ \E file \in Files : ChooseFile(file)
  \/ \E file \in Files : DropFile(file)
  \/ \E preset \in StylePresets : ClickStyle(preset)
  \/ \E value \in TweakTexts : TypeInstruction(value)
  \/ ClickImprove
  \/ ClickCompare
  \/ \E clicked \in BOOLEAN : ClickExport(clicked)
  \/ GenSettles
  \/ TweakSettles

Spec == Init /\ [][Next]_vars

\* A handler of App called by itself, in any state and with any argument,
\* whatever the rendered controls allow.
DirectCall ==
  /\ directCalls < MaxDirectCalls
  /\ directCalls' = directCalls + 1
  /\ \/ \E file \in Files \cup {NoFile} : handleImageUpload(file)
     \/ handleGenerateVariants
     \/ \E variantId \in 1..MaxUuids : handleApplyTweak(variantId, tweakRequest)
     \/ \E clicked \in BOOLEAN : ExportProp(clicked)

\* The application as rendered, and a bounded number of handler calls that
\* the controls would not have made. The controls are used with the demo
\* file, one style and one instruction; the generator answers with nothing
\* or with a text and an image, and loses the race only to the timer; the
\* editor answers with nothing or with an image, or rejects.
NextHandlers ==
  \/ ChooseFile("roadmap.png")
  \/ ClickStyle("Investor")
  \/ TypeInstruction(<<" ", "a">>)
  \/ ClickImprove
  \/ ClickCompare
  \/ \E f \in GenIds :
       \/ \E resp \in {NoResponse,
                        [hasParts |-> TRUE, parts |-> <<"text", "imgA">>]} :
            GenResolve(f, resp, "image/png", TRUE)
       \/ TimerFire(f)
       \/ GenImageLoaded(f)
  \/ \E t \in TweakIds :
       \/ \E resp \in {NoResponse, [hasParts |-> TRUE, parts |-> <<"imgB">>]} :
            TweakResolve(t, resp, "image/png", TRUE)
       \/ TweakReject(t)
       \/ TweakImageLoaded(t)
       \/ TweakImageError(t)
  \/ DirectCall

SpecHandlers == Init /\ [][NextHandlers]_vars

\* processFinalImage called by itself, once, with any image, background
\* and target width; the image it resolves with is kept in download.
TargetWidths == (1..MaxTargetWidth) \cup {DefaultTargetWidth}
ComposeUrls == {DataUrl(m, d) : m \in TweakMimeTypes, d \in ImageData}
ComposeBackgrounds == {DefaultBackground, "#000000"}

Compose(imageDataUrl, backgroundColor, targetWidth) ==
  /\ download = NoDisplay
  /\ download' = processFinalImage(imageDataUrl, backgroundColor, targetWidth)
  /\ UNCHANGED <<originalImage, stylePreset, variants, isLoading, isTweaking,
                 tweakRequest, error, compareOn, gen, tweak, uuidCount,
                 settled, thrown, directCalls>>

\* processFinalImage for a source image of imgWidth by imgHeight pixels:
\* the image it resolves with, and with it the rectangle img.onload drew
\* the source into.
Draw(imageDataUrl, backgroundColor, targetWidth, imgWidth, imgHeight) ==
  /\ download = NoDisplay
  /\ LET canvas == processFinalImage(imageDataUrl, backgroundColor, targetWidth)
         rect == drawImage(canvas.width, canvas.height, imgWidth, imgHeight)
     IN  download' = [src |-> canvas.src, bg |-> canvas.bg,
                      width |-> canvas.width, height |-> canvas.height,
                      imgWidth |-> imgWidth, imgHeight |-> imgHeight,
                      dx |-> rect.dx, dy |-> rect.dy,
                      dWidth |-> rect.dWidth, dHeight |-> rect.dHeight]
  /\ UNCHANGED <<originalImage, stylePreset, variants, isLoading, isTweaking,
                 tweakRequest, error, compareOn, gen, tweak, uuidCount,
                 settled, thrown, directCalls>>

NextCompositor ==
  \/ \E u \in ComposeUrls, b \in ComposeBackgrounds, w \in TargetWidths :
       Compose(u, b, w)
  \/ \E w \in TargetWidths, iw \in 1..MaxSourceSide, ih \in 1..MaxSourceSide :
       Draw(DataUrl("image/png", "imgA"), DefaultBackground, w, iw, ih)

SpecCompositor == Init /\ [][NextCompositor]_vars

\* ------------------------------------------------------------ properties
\* Flow f returns in this step; it publishes when it drew an id from
\* crypto.randomUUID for its finalVariant, and fails otherwise.
GenEnds(f) == InFlight(gen[f]) /\ ~InFlight(gen'[f])
GenPublishes(f) == GenEnds(f) /\ uuidCount' = uuidCount + 1
GenEndsInFailure(f) == GenEnds(f) /\ uuidCount' = uuidCount
\* Tweak flow t returns in this step; it applies its edit when it ran the
\* setVariants updater.
TweakEnds(t) == tweak[t].pc \in {"gen", "compose"} /\ tweak'[t].pc = "idle"
TweakApplies(t) == TweakEnds(t) /\ settled'.edited # "none"

\* C1: in every reachable state, whatever uploads, generations, edits,
\* exports, style changes and compare toggles have happened and however
\* their completions interleaved, session state holds at most one Variant.
C1_AtMostOneVariant == Len(variants) <= 1

\* A second generation has been published and then edited: one Variant.
C1_Witness ==
  /\ Len(variants) = 1
  /\ variants[1].id = 2
  /\ variants[1].truthLockStatus = "modified"

\* C2: whenever a generation flow ends in failure (extraction, generator
\* rejection, timeout, response shape, compositor), no Variant is present
\* when it ends, also when one existed before the generate request.
C2_FailedGenerationLeavesNoVariant ==
  [][\A f \in GenIds : GenEndsInFailure(f) => variants' = <<>>]_vars

\* A generation flow has just failed after an earlier one had published.
C2_Witness ==
  /\ uuidCount = 1
  /\ thrown # NoError
  /\ error = thrown
  /\ \A f \in GenIds : ~InFlight(gen[f])
  /\ variants = <<>>

\* C3: when the timer fires before the generator call has settled, the flow
\* ends in Error with the timeout message and the generating flag cleared;
\* the response arriving afterwards changes nothing in session state, also
\* while a later generation flow is in flight.
C3_TimeoutThenLateResponseIgnored ==
  [][\A f \in GenIds :
       /\ (gen[f].pc = "race" /\ gen[f].genPending
             /\ gen[f].timerPending /\ ~gen'[f].timerPending)
          => /\ GenEndsInFailure(f)
             /\ thrown' = MsgTimeout
             /\ error' = MsgTimeout
             /\ isLoading' = FALSE
             /\ variants' = variants
       /\ (~InFlight(gen[f]) /\ gen[f].genPending /\ ~gen'[f].genPending)
          => /\ settled'.late
             /\ UNCHANGED appState]_vars

\* The response of a flow that timed out has just arrived while a later
\* flow is in flight.
C3_Witness ==
  /\ settled.late
  /\ \E f \in GenIds : FreeRecord(gen[f])
  /\ \E f \in GenIds :
       gen[f].pc = "race" /\ gen[f].genPending /\ gen[f].timerPending
  /\ isLoading
  /\ error = NoError

\* C4: a successful generation replaces the Variant slot with exactly one
\* new Variant, verified, with an id never handed out before, made of the
\* flow's own image and its composite; nothing of an earlier Variant stays.
C4_SuccessfulGenerationReplacesSlot ==
  [][\A f \in GenIds :
       GenPublishes(f)
       => /\ Len(variants') = 1
          /\ variants'[1].truthLockStatus = "verified"
          /\ variants'[1].id \notin 1..uuidCount
          /\ \A i \in 1..Len(variants) : variants[i].id # variants'[1].id
          /\ variants'[1].sourceGraphicUrl = gen[f].graphic
          /\ variants'[1].displayImageUrl =
               [src |-> gen[f].graphic, bg |-> "#FFFFFF", width |-> 1920,
                height |-> 1080]]_vars

\* A second generation has published a verified Variant with a new id.
C4_Witness ==
  /\ uuidCount = 2
  /\ \A f \in GenIds : ~InFlight(gen[f])
  /\ ~isLoading
  /\ error = NoError
  /\ Len(variants) = 1
  /\ variants[1].id = 2
  /\ variants[1].truthLockStatus = "verified"

\* C5: a successful edit of a verified Variant makes it modified, a further
\* one keeps it modified, no step takes a Variant back to verified, and a
\* verified Variant appears only by a generation publishing a new one.
C5_EditsOnlyModify ==
  [][/\ \A t \in TweakIds :
          TweakApplies(t)
          => \A i \in 1..Len(variants') :
               variants'[i].id = tweak[t].variantId
               => variants'[i].truthLockStatus = "modified"
     /\ \A i \in 1..Len(variants), j \in 1..Len(variants') :
          (variants[i].id = variants'[j].id
             /\ variants[i].truthLockStatus = "modified")
          => variants'[j].truthLockStatus = "modified"
     /\ \A j \in 1..Len(variants') :
          (variants'[j].truthLockStatus = "verified"
             /\ \A i \in 1..Len(variants) : variants[i] # variants'[j])
          => \E f \in GenIds : GenPublishes(f)]_vars

\* An edit has just been applied to a Variant that was modified already.
C5_Witness ==
  /\ settled.edited = "modified"
  /\ Len(variants) = 1
  /\ variants[1].truthLockStatus = "modified"

\* C6: when the extractor call fails or its result carries an error marker,
\* the flow ends in Error with the extraction-failure message and has not
\* called the generator; a generation flow that has called the generator
\* holds a structured description without error marker, which the extractor
\* returned unless the file is a fixture.
C6_ExtractionFailureStopsFlow ==
  /\ [][\A f \in GenIds :
          (gen[f].pc = "ocr" /\ gen'[f].pc # "ocr"
             /\ (settled'.ocr.kind \in {"rejected", "unparseable"}
                   \/ settled'.ocr.value.error))
          => /\ GenEndsInFailure(f)
             /\ gen[f].genCalls = 0
             /\ ~gen'[f].genPending /\ ~gen'[f].timerPending
             /\ thrown' = MsgOcrFailed
             /\ error' = MsgOcrFailed]_vars
  /\ [](\A f \in GenIds :
          (InFlight(gen[f]) /\ gen[f].genCalls > 0)
          => /\ gen[f].structuredJson.tag = "object"
             /\ ~gen[f].structuredJson.error
             /\ gen[f].image \in DOMAIN DEMO_DATA \/ gen[f].ocrCalls = 1)

\* A flow ended on a rejected extractor call without calling the generator.
C6_Witness ==
  /\ settled.ocr.kind = "rejected"
  /\ thrown = MsgOcrFailed
  /\ error = MsgOcrFailed
  /\ ~isLoading
  /\ \A f \in GenIds : FreeRecord(gen[f])

PartsOf(resp) == IF resp.hasParts THEN resp.parts ELSE <<>>
LacksText(resp) == ~HasTextPart(PartsOf(resp))
LacksImage(resp) == ~HasImagePart(PartsOf(resp))

\* C7 as stated: a response lacking both the text part and the image part
\* ends in Error with one message, a response lacking exactly one of them
\* with the other message.
C7_MessageByMissingParts ==
  [][settled'.won =>
       /\ (LacksText(settled'.resp) /\ LacksImage(settled'.resp))
          => error' = MsgNotBoth
       /\ (LacksText(settled'.resp) # LacksImage(settled'.resp))
          => error' = MsgMissingPart]_vars

\* C7 amended: a response with no part list or fewer than two parts ends in
\* Error with the "didn't return both" message whichever parts it lacks; a
\* response with two or more parts that lacks the text part or the image
\* part ends in Error with the "missing either" message; the two differ.
C7_MessageByPartCount ==
  [][\A f \in GenIds :
       (settled'.won /\ gen[f].pc = "race" /\ gen'[f].pc # "race")
       => /\ Len(PartsOf(settled'.resp)) < 2
             => /\ error' = MsgNotBoth
                /\ GenEndsInFailure(f)
          /\ (Len(PartsOf(settled'.resp)) >= 2
                /\ (LacksText(settled'.resp) \/ LacksImage(settled'.resp)))
             => /\ error' = MsgMissingPart
                /\ GenEndsInFailure(f)
          /\ MsgNotBoth # MsgMissingPart]_vars

\* A response of one image part alone got the "didn't return both" message.
C7_Witness ==
  /\ settled.won
  /\ Len(settled.resp.parts) = 1
  /\ ~LacksImage(settled.resp)
  /\ error = MsgNotBoth

\* C8: a response with an image part and no text part ends the flow in
\* Error, and no Variant is published.
C8_ImageWithoutTextFails ==
  [][(settled'.won /\ ~LacksImage(settled'.resp) /\ LacksText(settled'.resp))
     => /\ \E f \in GenIds : gen[f].pc = "race" /\ GenEndsInFailure(f)
        /\ error' \in {MsgNotBoth, MsgMissingPart}
        /\ variants' = <<>>
        /\ uuidCount' = uuidCount
        /\ \A f \in GenIds : gen'[f].pc # "compose"]_vars

\* A response of two image parts and no text part ended a flow in Error.
C8_Witness ==
  /\ settled.won
  /\ Len(settled.resp.parts) = 2
  /\ \A i \in 1..2 : settled.resp.parts[i] \in ImageData
  /\ error = MsgMissingPart
  /\ variants = <<>>

\* C9: a flow for a file whose name is a key of the demo mapping issues no
\* extractor call and sends the generator exactly the fixture's content;
\* a flow for any other name has called the extractor exactly once when it
\* calls the generator.
C9_FixtureSkipsExtraction ==
  \A f \in GenIds :
    InFlight(gen[f]) =>
      IF gen[f].image \in {"roadmap.png", "survey.png", "flowchart.png"}
      THEN /\ gen[f].ocrCalls = 0
           /\ gen[f].genCalls = 1
           /\ gen[f].structuredJson = DEMO_DATA[gen[f].image]
           /\ gen[f].prompt =
                <<"Persona/Task/Rules", gen[f].style, "JSON Data to Visualize:", "{">>
                  \o DEMO_DATA[gen[f].image].body \o <<"}", "Format">>
      ELSE /\ gen[f].ocrCalls = 1
           /\ gen[f].genCalls = IF gen[f].pc = "ocr" THEN 0 ELSE 1

\* A flow for the fixture roadmap.png is awaiting the generator.
C9_Witness ==
  \E f \in GenIds :
    /\ gen[f].pc = "race"
    /\ gen[f].image = "roadmap.png"
    /\ gen[f].ocrCalls = 0

\* C10: whenever a generation flow that passed the source-image check ends,
\* the generating flag is false, and on failure the error is the
\* exception's message if it has one and the default string otherwise.
C10_FlagClearedAndMessageSurfaced ==
  [][\A f \in GenIds :
       GenEnds(f)
       => /\ isLoading' = FALSE
          /\ GenEndsInFailure(f)
             => /\ thrown' # NoError
                /\ error' = IF thrown' # "" THEN thrown' ELSE MsgGenerateDefault]_vars

\* A generator rejection without message surfaced as the default string.
C10_Witness ==
  /\ thrown = ""
  /\ error = MsgGenerateDefault
  /\ ~isLoading
  /\ \A f \in GenIds : ~InFlight(gen[f])

\* An edit flow is awaiting the generator or the compositor.
TweakInFlight(r) == r.pc \in {"gen", "compose"}
\* A call of handleApplyTweak returns in this step without having awaited
\* anything: it sets one of its two messages and starts no flow.
TweakReturnsAtOnce ==
  /\ error' \in {MsgTweakNotFound, MsgTweakFailed}
  /\ error' # error
  /\ \A t \in TweakIds : ~TweakEnds(t)

C12_FailedEditLeavesVariant ==
  [][/\ \A t \in TweakIds :
          /\ TweakInFlight(tweak[t]) => (TweakApplies(t) \/ variants' = variants)
          /\ (TweakEnds(t) /\ ~TweakApplies(t))
             => /\ error' = MsgTweakFailed
                /\ FindVariant(variants', tweak[t].variantId)
     /\ (TweakReturnsAtOnce /\ error' = MsgTweakFailed)
        => /\ variants' = variants
           /\ Len(variants) = 1
           /\ ~MatchesDataUrl(variants[1].sourceGraphicUrl)]_vars

\* An edit of a Variant whose stored image is no data URL has failed, and
\* the verified Variant is still there.
C12_Witness ==
  /\ error = MsgTweakFailed
  /\ ~isTweaking
  /\ Len(variants) = 1
  /\ variants[1].truthLockStatus = "verified"
  /\ ~MatchesDataUrl(variants[1].sourceGraphicUrl)

\* C13: an edit request for an id that matches no Variant surfaces an error
\* and aborts: no generator call is issued, the Variant slot, the source
\* image, the style directive and the generating flag are unchanged, and
\* the editing flag is false when the request returns.
C13_UnknownIdEditAborts ==
  [][(error' = MsgTweakNotFound /\ error # MsgTweakNotFound)
     => /\ tweak' = tweak
        /\ gen' = gen
        /\ variants' = variants
        /\ originalImage' = originalImage
        /\ stylePreset' = stylePreset
        /\ isLoading' = isLoading
        /\ isTweaking' = FALSE]_vars

\* An edit was requested for an id other than that of the Variant held.
C13_Witness ==
  /\ error = MsgTweakNotFound
  /\ Len(variants) = 1
  /\ directCalls = 1
  /\ ~isTweaking

\* C14: a generate request made while no source image is held sets the
\* error and changes nothing else: Variant slot, flags, compare flag and
\* style directive are unchanged and no extractor or generator call is
\* issued.
C14_GenerateWithoutImage ==
  [][(error' = MsgNoImage /\ error # MsgNoImage)
     => /\ originalImage = NoFile
        /\ UNCHANGED <<originalImage, stylePreset, variants, isLoading,
                       isTweaking, tweakRequest, compareOn, gen, tweak,
                       uuidCount>>
        /\ \A f \in GenIds : ~InFlight(gen'[f])]_vars

\* A generate request was made before any upload.
C14_Witness ==
  /\ error = MsgNoImage
  /\ originalImage = NoFile
  /\ directCalls = 1
  /\ ~isLoading

GenerationMessages ==
  {MsgOcrFailed, MsgTimeout, MsgNotBoth, MsgMissingPart, MsgGenerateDefault,
   MsgNoContext, MsgLoadFailed, MsgNullDeref, MsgService}
GenStarts(f) == ~InFlight(gen[f]) /\ InFlight(gen'[f])

\* C16 as stated: once a generation flow has ended in Error, only a new
\* upload leaves Error; a generate request without a new upload starts no
\* flow.
C16_ErrorAbsorbing ==
  [][((error \in GenerationMessages) /\ originalImage' = originalImage)
     => /\ (error \in GenerationMessages)'
        /\ \A f \in GenIds : ~GenStarts(f)]_vars

\* C16 amended: Error is left by a new upload or by a generate request,
\* which clears the error and the Variant slot, sets the generating flag
\* and starts a new flow; no other step leaves Error or changes its message.
C16_ErrorLeftByRetry ==
  [][(error \in GenerationMessages)
     => \/ /\ error' = error
           /\ \A f \in GenIds : ~GenStarts(f)
        \/ originalImage' # originalImage
        \/ /\ \E f \in GenIds : GenStarts(f)
           /\ error' = NoError
           /\ isLoading' = TRUE
           /\ variants' = <<>>]_vars

\* A flow timed out, and the generate request made in Error has started a
\* new flow that is awaiting the extractor.
C16_Witness ==
  /\ \E f \in GenIds : ~InFlight(gen[f]) /\ gen[f].genPending
  /\ \E f \in GenIds : gen[f].pc = "ocr"
  /\ error = NoError
  /\ isLoading

\* C17: with the controls disabled as CommandBar and Canvas disable them,
\* at most one flow is in flight at any time: never two generation flows,
\* never two edit flows, never a generation flow and an edit flow.
C17_AtMostOneFlow ==
  Cardinality({f \in GenIds : InFlight(gen[f])})
    + Cardinality({t \in TweakIds : TweakInFlight(tweak[t])}) <= 1

\* An edit flow is in flight while the timer of the finished generation
\* flow is still pending.
C17_Witness ==
  /\ \E t \in TweakIds : TweakInFlight(tweak[t])
  /\ \E f \in GenIds : gen[f].timerPending
  /\ isTweaking /\ ~isLoading

\* C18: a Variant in session state comes from the source image held: a
\* flow in flight was started for the image held, a flow publishes for the
\* image it was started for, and a step that changes the image empties the
\* Variant slot.
C18_VariantOfCurrentImage ==
  /\ [](\A f \in GenIds : InFlight(gen[f]) => gen[f].image = originalImage)
  /\ [][/\ \A f \in GenIds :
             GenPublishes(f) => gen[f].image = originalImage'
        /\ originalImage' # originalImage
           => /\ variants' = <<>>
              /\ \A f \in GenIds : ~InFlight(gen[f])
              /\ \A t \in TweakIds : ~TweakInFlight(tweak[t])]_vars

\* A Variant generated from the image held has been edited.
C18_Witness ==
  /\ originalImage = "slide.png"
  /\ Len(variants) = 1
  /\ variants[1].truthLockStatus = "modified"
  /\ \A f \in GenIds : ~InFlight(gen[f])

\* C19: an export taken while no Variant exists attempts no download and
\* sets no error; an export taken while a Variant exists downloads its
\* display image and leaves the Variant as it is.
C19_ExportGuarded ==
  [][/\ variants = <<>>
        => /\ download' = NoDisplay
           /\ error' \notin {MsgExportNotFound, MsgExportFailed}
     /\ (download' # NoDisplay
           \/ (error' \in {MsgExportNotFound, MsgExportFailed} /\ error' # error))
        => /\ variants' = variants
           /\ Len(variants) = 1
           /\ download' \in {NoDisplay, variants[1].displayImageUrl}
           /\ UNCHANGED <<originalImage, stylePreset, isLoading, isTweaking,
                          compareOn, gen, tweak>>]_vars

\* The display image of an edited Variant has been downloaded.
C19_Witness ==
  /\ Len(variants) = 1
  /\ variants[1].truthLockStatus = "modified"
  /\ download = variants[1].displayImageUrl

\* C20 as stated: for every target width the canvas has the requested
\* width and a height with 16 * height = 9 * width.
C20_HeightExact ==
  [][\A u \in ComposeUrls, b \in ComposeBackgrounds, w \in TargetWidths :
       Compose(u, b, w)
       => /\ download'.width = w
          /\ 16 * download'.height = 9 * w]_vars

\* C20 amended: the canvas has the requested width, and its height is
\* width * 9 / 16 rounded down: the largest integer h with 16 * h <= 9 *
\* width, equal to width * 9 / 16 when 16 divides the width; the default
\* width 1920 gives 1080.
C20_HeightTruncated ==
  [][\A u \in ComposeUrls, b \in ComposeBackgrounds, w \in TargetWidths :
       Compose(u, b, w)
       => /\ download'.width = w
          /\ 16 * download'.height <= 9 * w
          /\ 9 * w < 16 * (download'.height + 1)
          /\ (w % 16 = 0 => 16 * download'.height = 9 * w)
          /\ (w = DefaultTargetWidth => download'.height = 1080)]_vars

\* The compositor was called with a width that 16 does not divide.
C20_Witness ==
  /\ download # NoDisplay
  /\ download.width = 50
  /\ download.height = 28

\* ------------------------------------------- the rectangle of drawImage
\* The last step composited a source image of a known size.
Drawn == "dWidth" \in DOMAIN download
NumAbs(x) == [x EXCEPT !.neg = FALSE]
NumScale(x, bits) == IF x.mag = <<>> THEN x ELSE [x EXCEPT !.exp = @ + bits]

\* hRatio <= vRatio as real numbers: the width of the canvas limits the scale.
WidthLimits(d) == d.width * d.imgHeight <= d.height * d.imgWidth
\* The sides of the source scaled by min(width / imgWidth, height /
\* imgHeight) as real numbers, each a fraction p / q.
ScaledWidth(d) ==
  IF WidthLimits(d) THEN [p |-> d.width, q |-> 1]
  ELSE [p |-> d.imgWidth * d.height, q |-> d.imgHeight]
ScaledHeight(d) ==
  IF WidthLimits(d) THEN [p |-> d.imgHeight * d.width, q |-> d.imgWidth]
  ELSE [p |-> d.height, q |-> 1]
\* x is the fraction side.
IsSide(x, side) == (NumCmp(NumExactMulInt(x, side.q), NumFromInt(side.p)) = 0)
\* x is the fraction side up to the rounding of a division and a
\* multiplication of Numbers: |x - side| <= side * 2^-(Precision - 2).
NearSide(x, side) ==
  (NumCmp(NumScale(NumAbs(NumExactAdd(NumExactMulInt(x, side.q),
                                    NumNeg(NumFromInt(side.p)))),
                 Precision - 2),
        NumFromInt(side.p)) <= 0)

\* C21 as stated: the source is drawn scaled by min(canvasWidth /
\* sourceWidth, canvasHeight / sourceHeight): the drawn rectangle keeps the
\* aspect ratio of the source, its width is at most the canvas width and
\* its height at most the canvas height, and it equals the canvas on at
\* least one axis.
C21_ContainFit ==
  Drawn
  => /\ IsSide(download.dWidth, ScaledWidth(download))
     /\ IsSide(download.dHeight, ScaledHeight(download))
     /\ (NumCmp(NumExactMulInt(download.dWidth, download.imgHeight),
              NumExactMulInt(download.dHeight, download.imgWidth)) = 0)
     /\ (NumCmp(download.dWidth, NumFromInt(download.width)) <= 0)
     /\ (NumCmp(download.dHeight, NumFromInt(download.height)) <= 0)
     /\ \/ (NumCmp(download.dWidth, NumFromInt(download.width)) = 0)
        \/ (NumCmp(download.dHeight, NumFromInt(download.height)) = 0)

\* C21 amended: each side of the drawn rectangle is the side of the source
\* scaled by min(canvasWidth / sourceWidth, canvasHeight / sourceHeight) up
\* to the rounding of Number arithmetic, a relative error of at most
\* 2^-51; so it keeps the aspect ratio, lies inside the canvas and equals
\* the canvas on one axis only up to that error.
C21_ContainFitRounded ==
  Drawn
  => /\ NearSide(download.dWidth, ScaledWidth(download))
     /\ NearSide(download.dHeight, ScaledHeight(download))

\* A square source was drawn on the canvas of width 52 and height 29 with
\* both sides above 29.
C21_Witness ==
  /\ Drawn
  /\ download.width = 52 /\ download.imgWidth = download.imgHeight
  /\ NumCmp(download.dHeight, NumFromInt(download.height)) > 0
  /\ (NumCmp(download.dWidth, download.dHeight) = 0)

\* The right and bottom padding around the drawn rectangle as real numbers;
\* the left and top padding are dx and dy.
RightPadding(d) ==
  NumExactAdd(NumFromInt(d.width), NumNeg(NumExactAdd(d.dx, d.dWidth)))
BottomPadding(d) ==
  NumExactAdd(NumFromInt(d.height), NumNeg(NumExactAdd(d.dy, d.dHeight)))
\* |x - y| <= 1.
WithinOnePixel(x, y) ==
  (NumCmp(NumAbs(NumExactAdd(x, NumNeg(y))), NumFromInt(1)) <= 0)
\* x >= -side * 2^-(Precision - 2).
NegativeByRoundingOnly(x, side) ==
  NumSign(NumExactAdd(NumScale(x, Precision - 2), NumFromInt(side))) >= 0

\* C22 as stated: left and right padding are equal within one pixel, top
\* and bottom padding are equal within one pixel, and no padding is
\* negative.
C22_Centred ==
  Drawn
  => /\ WithinOnePixel(download.dx, RightPadding(download))
     /\ WithinOnePixel(download.dy, BottomPadding(download))
     /\ NumSign(download.dx) >= 0
     /\ NumSign(RightPadding(download)) >= 0
     /\ NumSign(download.dy) >= 0
     /\ NumSign(BottomPadding(download)) >= 0

\* C22 amended: left and right padding are equal within one pixel, top and
\* bottom padding are equal within one pixel, and a padding is negative
\* only by the rounding of the scaled side: it is never below minus the
\* canvas side times 2^-51.
C22_CentredRounded ==
  Drawn
  => /\ WithinOnePixel(download.dx, RightPadding(download))
     /\ WithinOnePixel(download.dy, BottomPadding(download))
     /\ NegativeByRoundingOnly(download.dx, download.width)
     /\ NegativeByRoundingOnly(RightPadding(download), download.width)
     /\ NegativeByRoundingOnly(download.dy, download.height)
     /\ NegativeByRoundingOnly(BottomPadding(download), download.height)

\* A source of 7 by 1 was drawn on the canvas of width 29 with a negative
\* left padding, and with a top padding above 5 pixels.
C22_Witness ==
  /\ Drawn
  /\ download.width = 29 /\ download.imgWidth = 7 /\ download.imgHeight = 1
  /\ NumSign(download.dx) < 0
  /\ NumCmp(download.dy, NumFromInt(5)) > 0

\* C23: in every reachable state every Variant present is complete and
\* consistent: its raw image and its display image are set, and the display
\* image is what the compositor makes of that raw image on a white
\* background at width 1920; so no state has one image of a generation or
\* of an edit without the other.
C23_VariantConsistent ==
  \A i \in 1..Len(variants) :
    /\ variants[i].sourceGraphicUrl # NoUrl
    /\ variants[i].displayImageUrl # NoDisplay
    /\ variants[i].displayImageUrl
         = processFinalImage(variants[i].sourceGraphicUrl, "#FFFFFF", 1920)

\* A Variant generated as imgA has been edited into imgB, and its display
\* image is the composite of imgB.
C23_Witness ==
  /\ Len(variants) = 1
  /\ variants[1].truthLockStatus = "modified"
  /\ variants[1].sourceGraphicUrl = DataUrl("image/png", "imgB")
  /\ variants[1].displayImageUrl.src = DataUrl("image/png", "imgB")

\* C24: the loser of the race is only ignored: when the timer of a flow
\* fires after the generator response has settled the race, the step
\* changes nothing in session state (error, Variant and generating flag
\* included) and nothing is thrown, also while another flow is in flight.
C24_LateTimerIgnored ==
  [][\A f \in GenIds :
       (gen[f].timerPending /\ ~gen'[f].timerPending /\ gen[f].pc # "race")
       => /\ thrown' = NoError
          /\ UNCHANGED appState
          /\ \A g \in GenIds \ {f} : gen'[g] = gen[g]
          /\ tweak' = tweak]_vars

\* The timer of the flow that published the Variant has just fired while
\* an edit of that Variant is in flight.
C24_Witness ==
  /\ settled.lateTimer
  /\ Len(variants) = 1
  /\ isTweaking
  /\ \E t \in TweakIds : TweakInFlight(tweak[t])

\* C25: a generation flow writes session state only when it starts and
\* when it returns: a step that takes a flow in flight from one await to
\* the next leaves session state as it is; and in every reachable state in
\* which the generating flag is set no Variant is present.
C25_NoVariantWhileGenerating ==
  /\ [](isLoading => variants = <<>>)
  /\ [][\A f \in GenIds :
          (InFlight(gen[f]) /\ InFlight(gen'[f]) /\ gen'[f] # gen[f])
          => UNCHANGED appState]_vars

\* A Variant had been published, a new generation has discarded it, and
\* the new flow has received its response and awaits the compositor.
C25_Witness ==
  /\ isLoading
  /\ variants = <<>>
  /\ uuidCount >= 1
  /\ \E f \in GenIds : gen[f].pc = "compose"

\* The instruction has a character that is not white space.
NonBlank(text) == \E i \in 1..Len(text) : text[i] # " "
\* An edit flow for the Variant with this id starts in this step.
EditStartsFor(variantId) ==
  \E t \in TweakIds :
    /\ ~TweakInFlight(tweak[t]) /\ TweakInFlight(tweak'[t])
    /\ tweak'[t].variantId = variantId

\* C26: the Improve action starts the edit flow on the current Variant if
\* and only if a Variant exists and the instruction is not blank (an edit
\* of a Variant whose raw image is no data URL fails before its first
\* await); in every other case it starts the generation flow, which
\* discards the current Variant; and no flow starts in any other way.
C26_ImproveDispatch ==
  [][/\ ClickImprove
        => IF Len(variants) > 0 /\ NonBlank(tweakRequest)
           THEN /\ \/ EditStartsFor(variants[1].id)
                   \/ /\ ~MatchesDataUrl(variants[1].sourceGraphicUrl)
                      /\ error' = MsgTweakFailed
                /\ \A f \in GenIds : ~GenStarts(f)
                /\ variants' = variants
           ELSE /\ \E f \in GenIds : GenStarts(f)
                /\ variants' = <<>>
                /\ tweak' = tweak
     /\ (\E id \in (1..MaxUuids) : EditStartsFor(id))
        => Len(variants) > 0 /\ NonBlank(tweakRequest)
     /\ (\E f \in GenIds : GenStarts(f))
        => variants = <<>> \/ ~NonBlank(tweakRequest)]_vars

\* A Variant was present with a white-space-only instruction, and Improve
\* has discarded it and started a generation flow.
C26_Witness ==
  /\ tweakRequest = <<" ">>
  /\ uuidCount >= 1
  /\ variants = <<>>
  /\ isLoading
  /\ \E f \in GenIds : InFlight(gen[f])

\* C27: an edit result is applied only to the Variant whose id the edit was
\* started for: the step that applies it keeps the number of Variants and
\* every Variant with another id, so when the Variant of the edit has been
\* cleared or replaced in the meantime the step changes no Variant and
\* recreates none.
C27_LateEditApplied ==
  [][\A t \in TweakIds :
       TweakApplies(t)
       => /\ Len(variants') = Len(variants)
          /\ \A i \in 1..Len(variants) :
               variants[i].id # tweak[t].variantId => variants'[i] = variants[i]
          /\ ~FindVariant(variants, tweak[t].variantId)
             => variants' = variants /\ settled'.edited = "absent"]_vars

\* The edit of the first Variant has just returned with an image after a
\* new generation had replaced that Variant: the second Variant is there
\* as it was published.
C27_Witness ==
  /\ settled.edited = "absent"
  /\ Len(variants) = 1
  /\ variants[1].id = 2
  /\ variants[1].truthLockStatus = "verified"
  /\ ~isTweaking

\* C28: the deadline covers the generator call only. While a flow awaits
\* the extractor its timer has not been started, and only the settlement
\* of the extractor call takes it on; while it awaits the image load of the
\* compositor only img.onload or img.onerror takes it on, and its timer
\* firing does not. In both waits the generating flag is set and no error
\* is reported, so a wait that never ends leaves the flow, the flag and
\* the empty error as they are for ever.
C28_DeadlineCoversGeneratorOnly ==
  /\ [](\A f \in GenIds :
          /\ gen[f].pc = "ocr" => ~gen[f].timerPending /\ ~gen[f].genPending
          /\ gen[f].pc \in {"ocr", "compose"} => isLoading /\ error = NoError)
  /\ [][\A f \in GenIds :
          /\ (gen[f].pc = "ocr" /\ gen'[f].pc # "ocr")
             => settled'.ocr # NoOcrOutcome
          /\ (gen[f].pc = "compose" /\ gen'[f].pc # "compose")
             => \/ GenPublishes(f)
                \/ GenEndsInFailure(f) /\ thrown' = MsgLoadFailed
          /\ (gen[f].pc = "compose" /\ gen[f].timerPending /\ ~gen'[f].timerPending)
             => gen'[f].pc = "compose" /\ UNCHANGED appState]_vars

\* The timer of a flow has just fired while the flow awaits the image load
\* of the compositor: the flow still waits, the generating flag is set and
\* no error is reported.
C28_Witness ==
  /\ settled.lateTimer
  /\ isLoading
  /\ error = NoError
  /\ \E f \in GenIds :
       gen[f].pc = "compose" /\ ~gen[f].timerPending /\ ~gen[f].genPending

\* C29: the edit flow has no deadline. While an edit flow awaits the
\* generator only the settlement of its call takes it on: no timer is
\* started for it, and a timer left by a generation flow that fires leaves
\* it waiting. As long as an edit flow is in flight the editing flag is set
\* and the command bar does nothing: style and instruction stay and no
\* generation or edit flow starts; so an edit call that never settles
\* leaves the flag set for ever.
C29_EditHasNoDeadline ==
  /\ [](\A t \in TweakIds :
          TweakInFlight(tweak[t]) => isTweaking)
  /\ [][\A t \in TweakIds :
          /\ TweakInFlight(tweak[t])
             => /\ UNCHANGED <<stylePreset, tweakRequest>>
                /\ \A f \in GenIds : ~GenStarts(f)
                /\ \A u \in TweakIds :
                     ~(~TweakInFlight(tweak[u]) /\ TweakInFlight(tweak'[u]))
          /\ (tweak[t].pc = "gen" /\ tweak'[t].pc # "gen")
             => UNCHANGED <<gen, originalImage, stylePreset, tweakRequest,
                            compareOn, variants, uuidCount, isLoading>>
          /\ (tweak[t].pc = "gen" /\ gen' # gen)
             => tweak' = tweak /\ UNCHANGED appState]_vars

\* An edit flow awaits the generator, and the timer of the generation flow
\* that published the Variant has just fired: the edit still waits with
\* the editing flag set and no timer pending.
C29_Witness ==
  /\ settled.lateTimer
  /\ isTweaking
  /\ \E t \in TweakIds : tweak[t].pc = "gen"
  /\ \A f \in GenIds : ~gen[f].timerPending /\ ~gen[f].genPending

\* C30: an upload event that carries no file clears the Variant slot, the
\* error and the compare flag and keeps the source image, so that a source
\* image is held with no Variant afterwards; and no step clears the source
\* image once one has been set.
C30_UploadWithoutFile ==
  [][/\ settled'.files = "empty"
        => /\ variants' = <<>>
           /\ error' = NoError
           /\ compareOn' = FALSE
           /\ originalImage' = originalImage
           /\ UNCHANGED <<stylePreset, isLoading, isTweaking, tweakRequest,
                          gen, tweak, uuidCount>>
     /\ originalImage # NoFile => originalImage' # NoFile]_vars

\* An upload event without a file has just been handled while a Variant
\* was present: the source image is still held and the Variant is gone.
C30_Witness ==
  /\ settled.files = "empty"
  /\ originalImage = "roadmap.png"
  /\ variants = <<>>
  /\ uuidCount >= 1
  /\ ~isLoading

====
